---- MODULE Spec2Model ----
(***************************************************************************)
(* A model of pdf_destinator/picker.py: the interactive session of         *)
(* PDFDestinationPicker over one PDF document.                             *)
(*                                                                         *)
(* Text (titles, ids, URIs) is a sequence of one-character strings, so     *)
(* that title_to_id, str.strip, str.lstrip and the URL pattern are         *)
(* computed character by character as the code computes them.  Three       *)
(* non-ASCII characters are written by their entity names.                 *)
(* Numbers (coordinates, zoom) are exact rationals <<n, d>> with d > 0 in  *)
(* lowest terms; Python's floats are read as the reals they approximate.   *)
(* A Python dict is a sequence of [k, v] entries with distinct keys, in    *)
(* insertion order.                                                        *)
(***************************************************************************)
EXTENDS Integers, Sequences, FiniteSets, TLC

\* ------------------------------------------------------------------ numbers

Abs(n) == IF n < 0 THEN -n ELSE n

RECURSIVE GCD(_, _)
GCD(a, b) == IF b = 0 THEN a ELSE GCD(b, a % b)

\* The rational n/d (d # 0) in lowest terms with a positive denominator.
Rat(n, d) ==
    LET g == GCD(Abs(n), Abs(d))
        s == IF d < 0 THEN -1 ELSE 1
    IN  <<(s * n) \div g, (s * d) \div g>>

I(n) == <<n, 1>>
RAdd(a, b) == Rat(a[1] * b[2] + b[1] * a[2], a[2] * b[2])
RSub(a, b) == Rat(a[1] * b[2] - b[1] * a[2], a[2] * b[2])
RMul(a, b) == Rat(a[1] * b[1], a[2] * b[2])
RDiv(a, b) == Rat(a[1] * b[2], a[2] * b[1])
RLt(a, b) == a[1] * b[2] < b[1] * a[2]
RLe(a, b) == a[1] * b[2] <= b[1] * a[2]
RAbs(a) == <<Abs(a[1]), a[2]>>
RMin(a, b) == IF RLe(a, b) THEN a ELSE b
RMax(a, b) == IF RLe(a, b) THEN b ELSE a

\* Python's None where a number, a point, a rectangle or a text may be absent.
None == <<>>
\* page_idx = None: the page of a destination could not be determined.
NoPage == -1

\* --------------------------------------------------------------------- text

UpperCase == <<"A","B","C","D","E","F","G","H","I","J","K","L","M",
               "N","O","P","Q","R","S","T","U","V","W","X","Y","Z">>
LowerCase == <<"a","b","c","d","e","f","g","h","i","j","k","l","m",
               "n","o","p","q","r","s","t","u","v","w","x","y","z">>
Digits == <<"0","1","2","3","4","5","6","7","8","9">>
EnDash == "&ndash;"
EmDash == "&mdash;"
Ellipsis == "&hellip;"

Range(s) == {s[i] : i \in 1..Len(s)}

\* str.lower() on one character.
LowerChar(c) ==
    IF \E i \in 1..26 : UpperCase[i] = c
    THEN LowerCase[CHOOSE i \in 1..26 : UpperCase[i] = c]
    ELSE c

Lower(s) == [i \in 1..Len(s) |-> LowerChar(s[i])]

\* The class \s of Python's re on str.
IsSpace(c) == c \in {" ", "\t", "\n"}

\* s[i:] and s[:i] with Python's 0-based slice bounds.
From(s, i) == SubSeq(s, i + 1, Len(s))
Upto(s, i) == SubSeq(s, 1, i)

StartsWith(s, p) == Len(s) >= Len(p) /\ Upto(s, Len(p)) = p

\* p in s (substring test).
Contains(s, p) == \E i \in 0..(Len(s) - Len(p)) : SubSeq(s, i + 1, i + Len(p)) = p

\* s.replace(p, r): the non-overlapping occurrences of p, left to right.
RECURSIVE Replace(_, _, _)
Replace(s, p, r) ==
    IF Len(s) = 0 THEN <<>>
    ELSE IF StartsWith(s, p) THEN r \o Replace(From(s, Len(p)), p, r)
    ELSE <<s[1]>> \o Replace(Tail(s), p, r)

\* re.sub(r'[^a-z0-9\s-]', '', s)
StripOther(s) ==
    SelectSeq(s, LAMBDA c : c \in Range(LowerCase) \cup Range(Digits) \/ IsSpace(c) \/ c = "-")

\* re.sub(r'\s+', '-', s): every maximal run of whitespace becomes one hyphen.
RECURSIVE SpacesToHyphen(_)
SpacesToHyphen(s) ==
    IF Len(s) = 0 THEN <<>>
    ELSE IF IsSpace(s[1])
         THEN IF Len(s) > 1 /\ IsSpace(s[2])
              THEN SpacesToHyphen(Tail(s))
              ELSE <<"-">> \o SpacesToHyphen(Tail(s))
         ELSE <<s[1]>> \o SpacesToHyphen(Tail(s))

\* re.sub(r'-+', '-', s)
RECURSIVE CollapseHyphens(_)
CollapseHyphens(s) ==
    IF Len(s) = 0 THEN <<>>
    ELSE IF s[1] = "-" /\ Len(s) > 1 /\ s[2] = "-"
         THEN CollapseHyphens(Tail(s))
         ELSE <<s[1]>> \o CollapseHyphens(Tail(s))

\* s.lstrip(c) and s.rstrip(c) for the characters of the set cs.
RECURSIVE LStrip(_, _)
LStrip(s, cs) == IF Len(s) > 0 /\ s[1] \in cs THEN LStrip(Tail(s), cs) ELSE s

RECURSIVE RStrip(_, _)
RStrip(s, cs) ==
    IF Len(s) > 0 /\ s[Len(s)] \in cs THEN RStrip(Upto(s, Len(s) - 1), cs) ELSE s

\* A strip that leaves the right end as it is.
StripLeft(s, cs) == LStrip(s, cs)

Strip(s, cs) == RStrip(LStrip(s, cs), cs)

\* str.strip() without argument.
StripSpace(s) == Strip(s, {" ", "\t", "\n"})

title_to_id(title) ==
    LET s1 == Lower(title)
        s2 == Replace(Replace(Replace(Replace(s1, <<EnDash>>, <<"-">>),
                                      <<EmDash>>, <<"-">>),
                              <<Ellipsis>>, <<>>),
                      <<".", ".", ".">>, <<>>)
        s3 == StripOther(s2)
        s4 == SpacesToHyphen(s3)
        s5 == CollapseHyphens(s4)
    IN  Strip(s5, {"-"})

\* The pattern without re.IGNORECASE.
url_patternCaseSensitive(text) ==
    \/ StartsWith(text, <<"h","t","t","p",":","/","/">>)
    \/ StartsWith(text, <<"h","t","t","p","s",":","/","/">>)

\* re.compile(r'^https?://', re.IGNORECASE).match(text)
url_pattern(text) ==
    \/ StartsWith(Lower(text), <<"h","t","t","p",":","/","/">>)
    \/ StartsWith(Lower(text), <<"h","t","t","p","s",":","/","/">>)

\* ---------------------------------------------------------------- dict

Keys(d) == {d[i].k : i \in 1..Len(d)}
Has(d, k) == k \in Keys(d)
Get(d, k) == d[CHOOSE i \in 1..Len(d) : d[i].k = k].v
\* d[k] = v: an existing key keeps its place, a new key goes last.
Put(d, k, v) ==
    IF Has(d, k)
    THEN [i \in 1..Len(d) |-> IF d[i].k = k THEN [k |-> k, v |-> v] ELSE d[i]]
    ELSE Append(d, [k |-> k, v |-> v])
\* del d[k]
\* A del that empties the dict.
DelAll(d, k) == <<>>

\* A del that leaves the key in place.
DelNothing(d, k) == d

Del(d, k) == SelectSeq(d, LAMBDA e : e.k # k)

\* d.update(e)
RECURSIVE Update(_, _)
Update(d, e) == IF Len(e) = 0 THEN d ELSE Update(Put(d, e[1].k, e[1].v), Tail(e))

\* ------------------------------------------------------------ more text

\* str.title(): a letter after a non-letter is upper-cased, any other letter
\* lower-cased.
UpperChar(c) ==
    IF \E i \in 1..26 : LowerCase[i] = c
    THEN UpperCase[CHOOSE i \in 1..26 : LowerCase[i] = c]
    ELSE c

IsLetter(c) == c \in Range(LowerCase) \cup Range(UpperCase)

TitleCase(s) ==
    [i \in 1..Len(s) |->
        IF i > 1 /\ IsLetter(s[i - 1]) THEN LowerChar(s[i]) ELSE UpperChar(s[i])]

\* str(n) for n >= 0.
RECURSIVE IntToText(_)
IntToText(n) ==
    IF n < 10 THEN <<Digits[n + 1]>> ELSE IntToText(n \div 10) \o <<Digits[(n % 10) + 1]>>

\* f"page-{dest_page + 1}"
PageTarget(dest_page) == <<"p","a","g","e","-">> \o IntToText(dest_page + 1)

\* ------------------------------------------------------------- sections

\* An entry of self.sections.  hasid = FALSE: the dict has no 'id' key;
\* type = "": it has no 'type' key.
Section(hasid, id, title, custom, type) ==
    [hasid |-> hasid, id |-> id, title |-> title, custom |-> custom, type |-> type]

\* section.get('id', title_to_id(section.get('title', '')))
SectionId(s) == IF s.hasid THEN s.id ELSE title_to_id(s.title)

\* A test that takes no section for a URL.
IsUrlNever(s) == FALSE

\* section.get('type') == 'url'
IsUrl(s) == s.type = "url"

SectionIds(secs) == {SectionId(secs[i]) : i \in 1..Len(secs)}

\* any(s.get('id') == uri for s in self.sections)
HasExplicitId(secs, id) == \E i \in 1..Len(secs) : secs[i].hasid /\ secs[i].id = id

\* ------------------------------------------------- load: destinations

\* One reader.named_destinations entry: d.page is the resolved page index or
\* NoPage; d.left and d.top are numbers or None.
ProcessDestination(existing, name, d, heights) ==
    LET clean_name == LStrip(name, {"/"})
        x == IF d.left # None THEN d.left ELSE I(0)
        y == IF d.top # None THEN RSub(I(heights[d.page + 1]), d.top) ELSE I(0)
    IN  IF d.page = NoPage THEN existing
        ELSE Put(existing, clean_name, <<d.page, x, y>>)

RECURSIVE LoadNames(_, _, _)
LoadNames(existing, named, heights) ==
    IF Len(named) = 0 THEN existing
    ELSE LoadNames(ProcessDestination(existing, named[1].k, named[1].v, heights),
                   Tail(named), heights)

\* float(v) if v else 0
FloatOrZero(v) == IF v = None \/ v = I(0) THEN I(0) ELSE v

\* One entry of the catalog's /Dests dictionary.
ProcessDestsEntry(existing, name, d, heights) ==
    LET clean_name == LStrip(name, {"/"})
        xyz == d.fit = "/XYZ"
        x == IF xyz THEN FloatOrZero(d.left) ELSE I(0)
        y == IF xyz THEN RSub(I(heights[d.page + 1]), FloatOrZero(d.top)) ELSE I(0)
    IN  IF Has(existing, clean_name) THEN existing
        ELSE IF d.page = NoPage THEN existing
        ELSE Put(existing, clean_name, <<d.page, x, y>>)

RECURSIVE LoadDests(_, _, _)
LoadDests(existing, dests, heights) ==
    IF Len(dests) = 0 THEN existing
    ELSE LoadDests(ProcessDestsEntry(existing, dests[1].k, dests[1].v, heights),
                   Tail(dests), heights)

\* reader.named_destinations: pypdf reads the catalog's /Dests when the
\* catalog has one, and the /Dests name tree under /Names only otherwise.
NamedDestinations(doc) == IF Len(doc.dests) > 0 THEN doc.dests ELSE doc.named

\* self.existing_destinations after both sources were read.
ExistingOf(doc) ==
    LoadDests(LoadNames(<<>>, NamedDestinations(doc), doc.heights), doc.dests, doc.heights)

\* A load that adopts no discovered position.
MatchSectionsNone(dests, secs, existing) == dests

\* Pre-populate destinations with the existing ones that match the sections.
RECURSIVE MatchSections(_, _, _)
MatchSections(dests, secs, existing) ==
    IF Len(secs) = 0 THEN dests
    ELSE LET section_id == SectionId(secs[1])
         IN  MatchSections(IF Has(existing, section_id)
                           THEN Put(dests, section_id, Get(existing, section_id))
                           ELSE dests,
                           Tail(secs), existing)

BookmarkKeywords ==
    { <<"b","l","a","d","w","i","j","z","e","r">>,
      <<"b","o","o","k","m","a","r","k">>,
      <<"t","o","c">> }

\* A filter that takes no id for a bookmark artifact.
IsBookmarkNever(dest_id) == FALSE

\* ':' in dest_id and any(x in dest_id.lower() for x in [...])
IsBookmark(dest_id) ==
    /\ ":" \in Range(dest_id)
    /\ \E w \in BookmarkKeywords : Contains(Lower(dest_id), w)

\* Add the unmatched destinations of the PDF as sections: st is
\* [sections, destinations]; rest is what is left of existing_destinations.
RECURSIVE AddUnmatched(_, _, _)
AddUnmatched(st, rest, section_ids) ==
    IF Len(rest) = 0 THEN st
    ELSE LET dest_id == rest[1].k
             custom_section ==
                 Section(TRUE, dest_id, TitleCase(Replace(dest_id, <<"-">>, <<" ">>)),
                         TRUE, "local")
         IN  IF dest_id \in section_ids \/ IsBookmark(dest_id)
             THEN AddUnmatched(st, Tail(rest), section_ids)
             ELSE AddUnmatched([sections |-> Append(st.sections, custom_section),
                                destinations |-> Put(st.destinations, dest_id, rest[1].v)],
                               Tail(rest), section_ids)

\* load_existing_destinations: [sections, destinations, existing_destinations].
\* Without pypdf the import raises and the whole body is skipped.
load_existing_destinations(doc, desired, pypdf) ==
    IF ~pypdf
    THEN [sections |-> desired, destinations |-> <<>>, existing_destinations |-> <<>>]
    ELSE LET existing == ExistingOf(doc)
             matched == MatchSections(<<>>, desired, existing)
             st == AddUnmatched([sections |-> desired, destinations |-> matched],
                                existing, SectionIds(desired))
         IN  [sections |-> st.sections, destinations |-> st.destinations,
              existing_destinations |-> existing]

\* -------------------------------------------------------- load: links

\* An entry of self.link_annotations.
Link(page, rect, dest_id, type, existing) ==
    [page |-> page, rect |-> rect, dest_id |-> dest_id, type |-> type,
     existing |-> existing]

\* The first destination on page_num within the tolerance of (x, y), or None.
RECURSIVE FindIn(_, _, _, _, _)
FindIn(rest, page_num, x, y, tolerance) ==
    IF Len(rest) = 0 THEN None
    ELSE LET dest == rest[1].v
         IN  IF /\ dest[1] = page_num
                /\ RLt(RAbs(RSub(dest[2], x)), tolerance)
                /\ RLt(RAbs(RSub(dest[3], y)), tolerance)
             THEN rest[1].k
             ELSE FindIn(Tail(rest), page_num, x, y, tolerance)

_find_destination_by_position(existing, page_num, x, y) ==
    FindIn(existing, page_num, x, y, I(5))

\* bool(fitz.Point): false for None and for the point (0, 0).
PointTruthy(pt) == pt # None /\ pt # <<I(0), I(0)>>

\* One link dict of page.get_links() on page page_num; st is
\* [sections, link_annotations].
LoadLink(st, link, existing) ==
    LET add(dest_id, type) ==
            [st EXCEPT !.link_annotations =
                Append(@, Link(link.page, link.from, dest_id, type, TRUE))]
        named == LStrip(link.name, {"/"})
        matched_dest ==
            _find_destination_by_position(existing, link.to_page, link.to[1], link.to[2])
    IN  IF link.from = None THEN st
        ELSE IF link.kind = "LINK_NAMED"
        THEN IF named # <<>> THEN add(named, "local") ELSE st
        ELSE IF link.kind = "LINK_URI"
        THEN IF link.uri = <<>> THEN st
             ELSE IF HasExplicitId(st.sections, link.uri) THEN add(link.uri, "url")
             ELSE [add(link.uri, "url") EXCEPT !.sections =
                      Append(@, Section(TRUE, link.uri, link.uri, TRUE, "url"))]
        ELSE IF link.kind = "LINK_GOTO"
        THEN IF named # <<>> THEN add(named, "local")
             ELSE IF PointTruthy(link.to)
             THEN IF matched_dest # <<>> THEN add(matched_dest, "local")
                  ELSE add(PageTarget(link.to_page), "page")
             ELSE add(PageTarget(link.to_page), "page")
        ELSE st

RECURSIVE LoadLinks(_, _, _)
LoadLinks(st, links, existing) ==
    IF Len(links) = 0 THEN st
    ELSE LoadLinks(LoadLink(st, links[1], existing), Tail(links), existing)

\* The links of the document page by page, as range(len(self.doc)) and
\* page.get_links() give them.
RECURSIVE ByPage(_, _, _)
ByPage(links, page_num, n) ==
    IF page_num >= n THEN <<>>
    ELSE SelectSeq(links, LAMBDA l : l.page = page_num) \o ByPage(links, page_num + 1, n)

\* load_existing_links: [sections, link_annotations].
load_existing_links(doc, secs, existing) ==
    LoadLinks([sections |-> secs, link_annotations |-> <<>>],
              ByPage(doc.links, 0, Len(doc.heights)), existing)

\* ------------------------------------------------------------ save

\* {s.get('id') for s in self.sections if s.get('type') == 'url'}
UrlIds(secs) == {secs[i].id : i \in {j \in 1..Len(secs) : IsUrl(secs[j]) /\ secs[j].hasid}}

\* A merge in which the discovered position wins over the session's.
AllDestinationsExistingWins(existing, dests, secs) ==
    SelectSeq(Update(dests, existing), LAMBDA e : e.k \notin UrlIds(secs))

\* all_destinations: the existing destinations updated with the session's,
\* without the ids of URL sections.
AllDestinations(existing, dests, secs) ==
    SelectSeq(Update(existing, dests), LAMBDA e : e.k \notin UrlIds(secs))

\* new_links, kept_existing_links, removed_existing_links, has_link_changes
NewLinks(links) == SelectSeq(links, LAMBDA l : ~l.existing)
KeptExistingLinks(links) == SelectSeq(links, LAMBDA l : l.existing)

\* A link diff that only sees the links added in the session.
HasLinkChangesAddedOnly(links, original_count) ==
    Len(NewLinks(links)) > 0

\* A link diff that always finds a change.
HasLinkChangesAlways(links, original_count) == TRUE

HasLinkChanges(links, original_count) ==
    Len(NewLinks(links)) > 0 \/ original_count - Len(KeptExistingLinks(links)) > 0

\* page_heights[page_num] if page_num < len(page_heights) else 800
DefaultPageHeight == 800

\* The height of the first page for every page.
PageHeightOfFirst(heights, page_num) == heights[1]

PageHeight(heights, page_num) ==
    IF page_num < Len(heights) THEN heights[page_num + 1] ELSE DefaultPageHeight

\* Step 1: the /Dests dictionary written for all_destinations.
DestsDict(all, heights) ==
    [i \in 1..Len(all) |->
        [k |-> <<"/">> \o all[i].k,
         v |-> [page |-> all[i].v[1], fit |-> "/XYZ", left |-> all[i].v[2],
                top |-> RSub(I(PageHeight(heights, all[i].v[1])), all[i].v[3])]]]

\* Step 2: the link dict handed to page.insert_link for one session link.
InsertedLink(l) ==
    IF l.type = "url"
    THEN [page |-> l.page, kind |-> "LINK_URI", from |-> l.rect, name |-> <<>>,
          uri |-> l.dest_id, to_page |-> 0, to |-> None]
    ELSE [page |-> l.page, kind |-> "LINK_NAMED", from |-> l.rect, name |-> l.dest_id,
          uri |-> <<>>, to_page |-> 0, to |-> None]

\* The links of the document after step 2: all deleted, the session's
\* inserted page by page in session order.
RewrittenLinks(links, n) ==
    ByPage([i \in 1..Len(links) |-> InsertedLink(links[i])], 0, n)

\* The temp file step 1 writes: the pages of the document with their
\* annotations and the new /Dests.
DestinationPass(doc, all) ==
    [heights |-> doc.heights,
     named |-> <<>>,
     dests |-> DestsDict(all, doc.heights),
     links |-> doc.links]

\* The file at pdf_path after a completed save.  The PdfWriter copies the
\* pages (with their annotations) and the metadata, not the catalog's name
\* tree or /Dests.
SavedDocument(doc, all, links, original_count) ==
    [heights |-> doc.heights,
     named |-> <<>>,
     dests |-> DestsDict(all, doc.heights),
     links |-> IF HasLinkChanges(links, original_count)
               THEN RewrittenLinks(links, Len(doc.heights))
               ELSE doc.links]

\* ------------------------------------------------------------- state

VARIABLES
    opened,                 \* the file at self.pdf_path as __init__ found it
    desired_sections,       \* the destinations argument of __init__
    pdf,                    \* the file at self.pdf_path
    temp_pdf,               \* the file at pdf_path.with_suffix('.tmp.pdf'), or None
    pypdf,                  \* whether "from pypdf import ..." succeeds
    sections,               \* self.sections
    current_section_idx,    \* self.current_section_idx
    destinations,           \* self.destinations
    existing_destinations,  \* self.existing_destinations
    custom_sections,        \* self.custom_sections
    doc_open,               \* self.doc has not been closed
    current_page,           \* self.current_page
    zoom,                   \* self.zoom
    link_annotations,       \* self.link_annotations
    original_link_count,    \* self.original_link_count
    drag_start,             \* self.drag_start
    drag_rect,              \* self.drag_rect is a canvas item
    hovered_link_index,     \* self.hovered_link_index
    button,                 \* mouse button 1 is held down over the canvas
    running,                \* the main loop runs: root.quit() was not called
    steps,                  \* the callbacks the main loop has dispatched
    event                   \* the callback dispatched last and what it did

vars == <<opened, desired_sections, pdf, temp_pdf, pypdf, sections, current_section_idx, destinations,
          existing_destinations, custom_sections, doc_open, current_page, zoom,
          link_annotations, original_link_count, drag_start, drag_rect,
          hovered_link_index, button, running, steps, event>>

store == <<sections, current_section_idx, destinations, existing_destinations,
           custom_sections, link_annotations, original_link_count>>
view == <<current_page, zoom>>
gesture == <<drag_start, drag_rect, hovered_link_index>>
file == <<opened, desired_sections, pdf, temp_pdf, pypdf, doc_open, running>>

\* self.hovered_link_index = None
NoIndex == -1

\* What the callback dispatched last did to the store or the file: its name,
\* how it ended, the id and the text it worked on, and a count it computed.
\* Quiet after a callback that only moves the view or the pointer.
Ev(op, out, id, text, n) == [op |-> op, out |-> out, id |-> id, text |-> text, n |-> n]
Quiet == Ev("", "", <<>>, <<>>, 0)

\* --------------------------------------------------------------- bounds

\* A session is followed for this many callbacks.
MaxEvents == 5
\* add_custom_destination is offered while fewer than this many destinations
\* added in the session are in the list.
MaxAdded == 1
\* A drag creates a link region while fewer than this many links created in
\* the session are in the list.
MaxNewLinks == 1
\* zoom_in is offered up to this many steps above 100%, zoom_out down to this
\* many steps below.
MaxZoomIn == 1
MaxZoomOut == 0
\* The longest destination list of a session.
MaxSections == 3 + MaxAdded
\* The longest title a session is started with.
MaxTitleLen == 3

\* --------------------------------------------------------------- inputs

T(c) == <<c>>
IdA == <<"a">>
IdB == <<"b">>
IdToc == <<"t","o","c",":","1">>
UriX == <<"h","t","t","p",":","/","/","x">>
UrlY == <<"H","T","T","P",":","/","/","y">>

XYZ(page, left, top) == [page |-> page, fit |-> "/XYZ", left |-> I(left), top |-> I(top)]
R(x0, y0, x1, y1) == <<I(x0), I(y0), I(x1), I(y1)>>
RawLink(page, kind, from, name, uri, to_page, to) ==
    [page |-> page, kind |-> kind, from |-> from, name |-> name, uri |-> uri,
     to_page |-> to_page, to |-> to]

\* Two pages of different height; no destinations, no links.
EmptyDocument ==
    [heights |-> <<800, 600>>, named |-> <<>>, dests |-> <<>>, links |-> <<>>]

\* One destination b in the name tree; no links.
LoneDocument ==
    [heights |-> <<800, 600>>,
     named |-> << [k |-> IdB, v |-> XYZ(1, 50, 550)] >>,
     dests |-> <<>>,
     links |-> <<>>]

\* In /Dests a destination a, one with the name of a URL and a bookmark
\* artifact; one URI link to that URL.
SingleDocument ==
    [heights |-> <<800, 600>>,
     named |-> <<>>,
     dests |-> << [k |-> T("/") \o IdA, v |-> XYZ(1, 40, 560)],
                  [k |-> T("/") \o UrlY, v |-> XYZ(0, 40, 760)],
                  [k |-> T("/") \o IdToc, v |-> XYZ(1, 0, 600)] >>,
     links |-> << RawLink(0, "LINK_URI", R(300, 300, 350, 350), <<>>, UrlY, 0, None) >>]

\* Destination a in the name tree and again in /Dests, a bookmark artifact
\* and b in /Dests only.  On page 1 a named link to a and, over it, a URI
\* link; on page 2 a direct page jump that lands on a, a named link to the
\* bookmark artifact, a direct page jump to the top left corner of page 2,
\* where the bookmark artifact is, and a second link to the same URI.
LinkedDocument ==
    [heights |-> <<800, 600>>,
     named |-> << [k |-> IdA, v |-> XYZ(1, 10, 10)] >>,
     dests |-> << [k |-> T("/") \o IdA, v |-> XYZ(0, 40, 760)],
                  [k |-> T("/") \o IdToc, v |-> XYZ(1, 0, 600)],
                  [k |-> T("/") \o IdB, v |-> XYZ(1, 50, 550)] >>,
     links |-> << RawLink(0, "LINK_NAMED", R(30, 30, 60, 60), IdA, <<>>, 0, None),
                  RawLink(0, "LINK_URI", R(35, 35, 150, 150), <<>>, UriX, 0, None),
                  RawLink(1, "LINK_GOTO", R(30, 30, 60, 60), <<>>, <<>>, 0,
                          <<I(42), I(38)>>),
                  RawLink(1, "LINK_NAMED", R(100, 100, 150, 150), IdToc, <<>>, 0, None),
                  RawLink(1, "LINK_GOTO", R(200, 200, 250, 250), <<>>, <<>>, 1,
                          <<I(0), I(0)>>),
                  RawLink(1, "LINK_URI", R(300, 300, 350, 350), <<>>, UriX, 0, None) >>]

Documents == {EmptyDocument, LoneDocument, SingleDocument, LinkedDocument}

\* The caller's list: none, or an entry with an id and one with a title only.
DesiredLists ==
    { <<>>,
      << Section(TRUE, UrlY, T("Y"), FALSE, ""), Section(FALSE, <<>>, T("A"), FALSE, "") >> }

\* What the user may type into the "New destination" dialog (empty also
\* stands for a dismissed dialog).
Texts == { <<>>, T(" "), <<" ", "B", "!">>, T(" ") \o UrlY }

\* Canvas positions of mouse events.
Point(x, y) == <<I(x), I(y)>>
\* The button goes down at DownPoint; UpPoints are at distance 5 and 10 of it.
DownPoint == Point(40, 40)
UpPoints == { Point(43, 44), Point(46, 48) }
MotionPoints == { Point(40, 40), Point(200, 200) }

\* ----------------------------------------------------------------- Init

\* __init__: the session as load_existing_destinations and
\* load_existing_links leave it.
__init__(doc, desired, lib) ==
    LET ld == load_existing_destinations(doc, desired, lib)
        ll == load_existing_links(doc, ld.sections, ld.existing_destinations)
    IN  /\ opened = doc
        /\ desired_sections = desired
        /\ pdf = doc
        /\ temp_pdf = None
        /\ pypdf = lib
        /\ sections = ll.sections
        /\ current_section_idx = 0
        /\ destinations = ld.destinations
        /\ existing_destinations = ld.existing_destinations
        /\ custom_sections = <<>>
        /\ doc_open = TRUE
        /\ current_page = 0
        /\ zoom = I(1)
        /\ link_annotations = ll.link_annotations
        /\ original_link_count = Len(ll.link_annotations)
        /\ drag_start = None
        /\ drag_rect = FALSE
        /\ hovered_link_index = NoIndex
        /\ button = FALSE
        /\ running = TRUE
        /\ steps = 0
        /\ event = Ev("__init__", "loaded", <<>>, <<>>, 0)

Init ==
    \E doc \in Documents, desired \in DesiredLists, lib \in BOOLEAN :
        __init__(doc, desired, lib)

\* ------------------------------------------- destination list callbacks

\* The main loop hands one more event to its callback.
Dispatch ==
    /\ running
    /\ steps < MaxEvents
    /\ steps' = steps + 1

NumPages == Len(pdf.heights)

\* The section under self.current_section_idx, when there is one.
HasCurrent == current_section_idx < Len(sections)
Current == sections[current_section_idx + 1]

\* _navigate_to_current_destination with the selection at idx: the page
\* shown afterwards.
NavigatedPage(idx) ==
    IF idx < Len(sections)
    THEN LET section_id == SectionId(sections[idx + 1])
         IN  IF Has(destinations, section_id) THEN Get(destinations, section_id)[1]
             ELSE IF Has(existing_destinations, section_id)
             THEN Get(existing_destinations, section_id)[1]
             ELSE current_page
    ELSE current_page

on_section_select(new_idx) ==
    /\ Dispatch
    /\ new_idx \in 0..(Len(sections) - 1)
    /\ current_section_idx' = new_idx
    /\ current_page' = IF new_idx # current_section_idx THEN NavigatedPage(new_idx)
                       ELSE current_page
    /\ event' = Quiet
    /\ UNCHANGED <<sections, destinations, existing_destinations, custom_sections,
                   link_annotations, original_link_count, zoom, gesture, button, file>>

\* The dict add_custom_destination builds for the stripped text.
NewDestination(text) ==
    IF url_pattern(text)
    THEN Section(TRUE, text, text, TRUE, "url")
    ELSE Section(TRUE, title_to_id(text), text, TRUE, "local")

add_custom_destination(text) ==
    /\ Dispatch
    /\ Len(custom_sections) < MaxAdded
    /\ IF text # <<>>
       THEN LET new_dest == NewDestination(StripSpace(text))
            IN  /\ sections' = Append(sections, new_dest)
                /\ custom_sections' = Append(custom_sections, new_dest)
                /\ current_section_idx' = Len(sections)
                /\ event' = Ev("add_custom_destination", "added", new_dest.id, text, 0)
       ELSE /\ UNCHANGED <<sections, custom_sections, current_section_idx>>
            /\ event' = Ev("add_custom_destination", "nothing", <<>>, text, 0)
    /\ UNCHANGED <<destinations, existing_destinations, link_annotations,
                   original_link_count, view, gesture, button, file>>

\* A pop that removes the first element whatever the index.
PopFirst(seq, i) == Tail(seq)

\* A pop that removes nothing.
PopNothing(seq, i) == seq

\* list.pop(i) with a 0-based index.
Pop(seq, i) == Upto(seq, i) \o From(seq, i + 1)

\* list.remove(x): without the first element equal to x.
RemoveFirst(seq, x) ==
    IF \E i \in 1..Len(seq) : seq[i] = x
    THEN Pop(seq, (CHOOSE i \in 1..Len(seq) : seq[i] = x /\ \A j \in 1..(i - 1) : seq[j] # x) - 1)
    ELSE seq

\* A cascade that spares the links loaded from the document.
LinksNotToCreated(links, section_id) ==
    SelectSeq(links, LAMBDA l : l.dest_id # section_id \/ l.existing)

\* self.link_annotations without the links that point to section_id.
LinksNotTo(links, section_id) == SelectSeq(links, LAMBDA l : l.dest_id # section_id)

\* A selection that stays where it was.
IndexKept(idx, len) == idx

\* The selection after the section under it was popped.
IndexAfterPop(idx, len) == IF idx >= len /\ len > 0 THEN len - 1 ELSE idx

remove_destination(confirm) ==
    /\ Dispatch
    /\ IF HasCurrent /\ confirm
       THEN LET section_id == SectionId(Current)
                link_count == Len(link_annotations) - Len(LinksNotTo(link_annotations, section_id))
            IN  /\ sections' = Pop(sections, current_section_idx)
                /\ custom_sections' = RemoveFirst(custom_sections, Current)
                /\ destinations' = Del(destinations, section_id)
                /\ existing_destinations' = Del(existing_destinations, section_id)
                /\ link_annotations' = LinksNotTo(link_annotations, section_id)
                /\ current_section_idx' = IndexAfterPop(current_section_idx, Len(sections) - 1)
                /\ event' = Ev("remove_destination", "removed", section_id, <<>>, link_count)
       ELSE /\ UNCHANGED <<sections, custom_sections, destinations, existing_destinations,
                           link_annotations, current_section_idx>>
            /\ event' = Ev("remove_destination", "nothing", <<>>, <<>>, 0)
    /\ UNCHANGED <<original_link_count, view, gesture, button, file>>

prev_section ==
    /\ Dispatch
    /\ IF current_section_idx > 0
       THEN /\ current_section_idx' = current_section_idx - 1
            /\ current_page' = NavigatedPage(current_section_idx - 1)
       ELSE UNCHANGED <<current_section_idx, current_page>>
    /\ event' = Quiet
    /\ UNCHANGED <<sections, destinations, existing_destinations, custom_sections,
                   link_annotations, original_link_count, zoom, gesture, button, file>>

next_section ==
    /\ Dispatch
    /\ IF current_section_idx < Len(sections) - 1
       THEN /\ current_section_idx' = current_section_idx + 1
            /\ current_page' = NavigatedPage(current_section_idx + 1)
       ELSE UNCHANGED <<current_section_idx, current_page>>
    /\ event' = Quiet
    /\ UNCHANGED <<sections, destinations, existing_destinations, custom_sections,
                   link_annotations, original_link_count, zoom, gesture, button, file>>

remove_current_destination ==
    /\ Dispatch
    /\ IF HasCurrent
       THEN LET section_id == SectionId(Current)
                removed == Has(destinations, section_id) \/ Has(existing_destinations, section_id)
            IN  /\ destinations' = Del(destinations, section_id)
                /\ existing_destinations' = Del(existing_destinations, section_id)
                /\ event' = Ev("remove_current_destination",
                               IF removed THEN "removed" ELSE "nothing", section_id, <<>>, 0)
       ELSE /\ UNCHANGED <<destinations, existing_destinations>>
            /\ event' = Ev("remove_current_destination", "nothing", <<>>, <<>>, 0)
    /\ UNCHANGED <<sections, current_section_idx, custom_sections, link_annotations,
                   original_link_count, view, gesture, button, file>>

\* ------------------------------------------------------- view callbacks

\* len(self.doc) raises on a closed document: the callback ends there.
prev_page ==
    /\ Dispatch
    /\ current_page' = IF current_page > 0 THEN current_page - 1 ELSE current_page
    /\ event' = Quiet
    /\ UNCHANGED <<store, zoom, gesture, button, file>>

\* A next_page that does not look at the page count.
next_pageUnguarded ==
    /\ Dispatch
    /\ current_page' = current_page + 1
    /\ event' = Quiet
    /\ UNCHANGED <<store, zoom, gesture, button, file>>

next_page ==
    /\ Dispatch
    /\ current_page' = IF doc_open /\ current_page < NumPages - 1
                       THEN current_page + 1 ELSE current_page
    /\ event' = Quiet
    /\ UNCHANGED <<store, zoom, gesture, button, file>>

\* _do_scroll(units) with the canvas at the edge it scrolls towards or not.
_do_scroll(units, at_edge) ==
    /\ Dispatch
    /\ current_page' =
          IF units < 0
          THEN IF at_edge /\ current_page > 0 THEN current_page - 1 ELSE current_page
          ELSE IF at_edge /\ doc_open /\ current_page < NumPages - 1
               THEN current_page + 1 ELSE current_page
    /\ event' = Quiet
    /\ UNCHANGED <<store, zoom, gesture, button, file>>

ZoomStep == Rat(1, 4)
ZoomMax == I(3)
ZoomMin == Rat(1, 2)

zoom_in ==
    /\ Dispatch
    /\ RLt(zoom, RAdd(I(1), RMul(I(MaxZoomIn), ZoomStep)))
    /\ zoom' = RMin(ZoomMax, RAdd(zoom, ZoomStep))
    /\ event' = Quiet
    /\ UNCHANGED <<store, current_page, gesture, button, file>>

zoom_out ==
    /\ Dispatch
    /\ RLt(RSub(I(1), RMul(I(MaxZoomOut), ZoomStep)), zoom)
    /\ zoom' = RMax(ZoomMin, RSub(zoom, ZoomStep))
    /\ event' = Quiet
    /\ UNCHANGED <<store, current_page, gesture, button, file>>

\* update_display: the markers drawn on the canvas, as <<id, canvas_x,
\* canvas_y>>, for the session's positions on the page shown.
Markers(dests, page, z) ==
    {<<dests[i].k, RMul(dests[i].v[2], z), RMul(dests[i].v[3], z)>> :
        i \in {j \in 1..Len(dests) : dests[j].v[1] = page}}

\* ------------------------------------------------------ mouse callbacks

\* cx0 <= canvas_x <= cx1 and cy0 <= canvas_y <= cy1 for the link's rectangle
\* scaled by the zoom.
ContainsPoint(link, z, pt) ==
    /\ RLe(RMul(link.rect[1], z), pt[1]) /\ RLe(pt[1], RMul(link.rect[3], z))
    /\ RLe(RMul(link.rect[2], z), pt[2]) /\ RLe(pt[2], RMul(link.rect[4], z))

\* The 0-based indexes of the links on the page that contain the point.
Hits(links, page, z, pt) ==
    {i \in 0..(Len(links) - 1) : links[i + 1].page = page /\ ContainsPoint(links[i + 1], z, pt)}

\* The last of the links that contain the point instead of the first.
LastHit(links, page, z, pt) ==
    IF Hits(links, page, z, pt) = {} THEN NoIndex
    ELSE CHOOSE i \in Hits(links, page, z, pt) : \A j \in Hits(links, page, z, pt) : i >= j

\* The index the loops of on_mouse_motion and delete_link_at_position stop at.
FirstHit(links, page, z, pt) ==
    IF Hits(links, page, z, pt) = {} THEN NoIndex
    ELSE CHOOSE i \in Hits(links, page, z, pt) : \A j \in Hits(links, page, z, pt) : i <= j

on_mouse_motion(pt) ==
    /\ Dispatch
    /\ ~button
    /\ hovered_link_index' =
          IF drag_start # None THEN hovered_link_index
          ELSE FirstHit(link_annotations, current_page, zoom, pt)
    /\ event' = Quiet
    /\ UNCHANGED <<store, view, drag_start, drag_rect, button, file>>

on_mouse_down(pt) ==
    LET hit == FirstHit(link_annotations, current_page, zoom, pt)
    IN  /\ Dispatch
        /\ ~button
        /\ button' = TRUE
        /\ IF hovered_link_index # NoIndex /\ hit # NoIndex
           THEN /\ link_annotations' = Pop(link_annotations, hit)
                /\ hovered_link_index' = NoIndex
                /\ event' = Ev("delete_link_at_position", "deleted",
                               link_annotations[hit + 1].dest_id, <<>>, hit)
                /\ UNCHANGED <<drag_start, drag_rect>>
           ELSE /\ drag_start' = pt
                /\ drag_rect' = FALSE
                /\ event' = Quiet
                /\ UNCHANGED <<link_annotations, hovered_link_index>>
        /\ UNCHANGED <<sections, current_section_idx, destinations, existing_destinations,
                       custom_sections, original_link_count, view, file>>

on_mouse_drag(pt) ==
    /\ Dispatch
    /\ button
    /\ drag_rect' = IF drag_start = None THEN drag_rect ELSE TRUE
    /\ event' = Quiet
    /\ UNCHANGED <<store, view, drag_start, hovered_link_index, button, file>>

\* The distance below which a button-up makes a click.
ClickDistance == 10

\* A test that takes a distance of exactly 10 for a click as well.
IsClickInclusive(from, to) ==
    LET dx == RSub(to[1], from[1])
        dy == RSub(to[2], from[2])
    IN  RLe(RAdd(RMul(dx, dx), RMul(dy, dy)), I(ClickDistance * ClickDistance))

\* drag_distance < 10
IsClick(from, to) ==
    LET dx == RSub(to[1], from[1])
        dy == RSub(to[2], from[2])
    IN  RLt(RAdd(RMul(dx, dx), RMul(dy, dy)), I(ClickDistance * ClickDistance))

\* The position a click at the canvas point stores.
ClickPosition(page, z, pt) == <<page, RDiv(pt[1], z), RDiv(pt[2], z)>>

\* The link a drag between the two canvas points creates.
DraggedLink(page, z, from, to, section) ==
    Link(page,
         << RDiv(RMin(from[1], to[1]), z), RDiv(RMin(from[2], to[2]), z),
            RDiv(RMax(from[1], to[1]), z), RDiv(RMax(from[2], to[2]), z) >>,
         SectionId(section),
         IF IsUrl(section) THEN "url" ELSE "local",
         FALSE)

on_mouse_up(pt) ==
    /\ Dispatch
    /\ button
    /\ button' = FALSE
    /\ (drag_start # None /\ HasCurrent /\ ~IsClick(drag_start, pt))
          => Len(NewLinks(link_annotations)) < MaxNewLinks
    /\ IF drag_start = None
       THEN /\ event' = Ev("on_mouse_up", "idle", <<>>, <<>>, 0)
            /\ UNCHANGED <<destinations, link_annotations, drag_start, drag_rect>>
       ELSE /\ drag_start' = None
            /\ drag_rect' = FALSE
            /\ IF ~HasCurrent
               THEN /\ event' = Ev("on_mouse_up", "no section", <<>>, <<>>, 0)
                    /\ UNCHANGED <<destinations, link_annotations>>
               ELSE IF IsClick(drag_start, pt)
               THEN IF IsUrl(Current)
                    THEN /\ event' = Ev("on_mouse_up", "url click", SectionId(Current), <<>>, 0)
                         /\ UNCHANGED <<destinations, link_annotations>>
                    ELSE /\ destinations' =
                               Put(destinations, SectionId(Current),
                                   ClickPosition(current_page, zoom, drag_start))
                         /\ event' = Ev("on_mouse_up", "position", SectionId(Current), <<>>, 0)
                         /\ UNCHANGED link_annotations
               ELSE /\ link_annotations' =
                          Append(link_annotations,
                                 DraggedLink(current_page, zoom, drag_start, pt, Current))
                    /\ event' = Ev("on_mouse_up", "link", SectionId(Current), <<>>, 0)
                    /\ UNCHANGED destinations
    /\ UNCHANGED <<sections, current_section_idx, existing_destinations, custom_sections,
                   original_link_count, view, hovered_link_index, file>>

\* -------------------------------------------------------- save and cancel

\* save_and_quit; confirm answers the "No changes" dialog.  On a closed
\* document len(self.doc) and self.doc.close() raise and the callback ends.
\* In step 2 fitz.open, insert_link or doc.save may raise (io_error): the
\* callback ends there and the main loop goes on.
save_and_quit(confirm) ==
    LET all_destinations == AllDestinations(existing_destinations, destinations, sections)
        has_link_changes == HasLinkChanges(link_annotations, original_link_count)
    IN  /\ Dispatch
        /\ IF Len(all_destinations) = 0 /\ ~has_link_changes
           THEN /\ doc_open' = IF confirm THEN FALSE ELSE doc_open
                /\ running' = ~(confirm /\ doc_open)
                /\ event' = Ev("save_and_quit",
                               IF confirm /\ doc_open THEN "no changes" ELSE "nothing",
                               <<>>, <<>>, 0)
                /\ UNCHANGED <<opened, desired_sections, pdf, temp_pdf, pypdf>>
           ELSE IF ~doc_open
           THEN /\ event' = Ev("save_and_quit", "raised", <<>>, <<>>, 0)
                /\ UNCHANGED file
           ELSE IF ~pypdf
           THEN /\ doc_open' = FALSE
                /\ event' = Ev("save_and_quit", "import error", <<>>, <<>>, 0)
                /\ UNCHANGED <<opened, desired_sections, pdf, temp_pdf, pypdf, running>>
           ELSE \E io_error \in BOOLEAN :
                IF has_link_changes /\ io_error
                THEN /\ doc_open' = FALSE
                     /\ temp_pdf' = DestinationPass(pdf, all_destinations)
                     /\ event' = Ev("save_and_quit", "step 2 raised", <<>>, <<>>,
                                    Len(all_destinations))
                     /\ UNCHANGED <<opened, desired_sections, pdf, pypdf, running>>
                ELSE /\ ~io_error
                     /\ doc_open' = FALSE
                     /\ pdf' = SavedDocument(pdf, all_destinations, link_annotations,
                                             original_link_count)
                     /\ temp_pdf' = None
                     /\ running' = FALSE
                     /\ event' = Ev("save_and_quit", "saved", <<>>, <<>>, Len(all_destinations))
                     /\ UNCHANGED <<opened, desired_sections, pypdf>>
        /\ UNCHANGED <<store, view, gesture, button>>

cancel(confirm) ==
    /\ Dispatch
    /\ running' = ~(confirm /\ doc_open)
    /\ doc_open' = IF confirm THEN FALSE ELSE doc_open
    /\ event' = Ev("cancel", IF confirm /\ doc_open THEN "cancelled" ELSE "nothing",
                   <<>>, <<>>, 0)
    /\ UNCHANGED <<opened, desired_sections, pdf, temp_pdf, pypdf, store, view, gesture, button>>

\* ------------------------------------------------------------------ Next

Next ==
    \/ \E new_idx \in 0..(MaxSections - 1) : on_section_select(new_idx)
    \/ \E text \in Texts : add_custom_destination(text)
    \/ \E confirm \in BOOLEAN : remove_destination(confirm)
    \/ prev_section
    \/ next_section
    \/ remove_current_destination
    \/ prev_page
    \/ next_page
    \/ \E units \in {-3, 3}, at_edge \in BOOLEAN : _do_scroll(units, at_edge)
    \/ zoom_in
    \/ zoom_out
    \/ \E pt \in MotionPoints : on_mouse_motion(pt)
    \/ on_mouse_down(DownPoint)
    \/ \E pt \in UpPoints : on_mouse_drag(pt)
    \/ \E pt \in UpPoints : on_mouse_up(pt)
    \/ \E confirm \in BOOLEAN : save_and_quit(confirm)
    \/ \E confirm \in BOOLEAN : cancel(confirm)

Spec == Init /\ [][Next]_vars

\* ---------------------------------------------------- sessions by title

\* The characters of a title: an upper-case and a lower-case letter, a
\* digit, whitespace, a hyphen, a dash and an ellipsis title_to_id replaces and
\* a character it drops.
TitleChars == {"A", "b", "1", " ", "-", EnDash, Ellipsis, "!"}
Titles == UNION {[1..n -> TitleChars] : n \in 0..MaxTitleLen}

\* main() with --titles t gives the entry an id; an entry of a JSON file may
\* have a title only.
TitleEntry(t, with_id) ==
    IF with_id THEN Section(TRUE, title_to_id(t), t, FALSE, "")
    ELSE Section(FALSE, <<>>, t, FALSE, "")

\* A session on a document without destinations, for one desired entry.
TitleInit ==
    \E t \in Titles, with_id \in BOOLEAN :
        __init__(EmptyDocument, <<TitleEntry(t, with_id)>>, TRUE)

\* The callbacks that compute the id of the selected entry.
TitleNext ==
    \/ on_mouse_down(DownPoint)
    \/ \E pt \in UpPoints : on_mouse_up(pt)
    \/ remove_current_destination

TitleSpec == TitleInit /\ [][TitleNext]_vars

\* ------------------------------------------------------------ properties

\* The session as a fresh __init__ loads it from the file as it now is (with
\* no list from the caller, in the same environment).
Reloaded ==
    LET ld == load_existing_destinations(pdf, <<>>, pypdf)
        ll == load_existing_links(pdf, ld.sections, ld.existing_destinations)
    IN  [sections |-> ll.sections, destinations |-> ld.destinations,
         existing_destinations |-> ld.existing_destinations,
         link_annotations |-> ll.link_annotations]

\* The session as __init__ loaded it from the file it opened.
LoadedLinks ==
    load_existing_links(opened, <<>>,
        load_existing_destinations(opened, <<>>, pypdf).existing_destinations).link_annotations

\* The ids of the External entries of a destination list.
ExternalIds(secs) == {SectionId(secs[i]) : i \in {j \in 1..Len(secs) : secs[j].type = "url"}}

\* A position map as a set of <<id, position>>: the discovered positions
\* overlaid by the session's, External ids left out.
FinalMap(existing, dests, secs) ==
    {<<id, IF Has(dests, id) THEN Get(dests, id) ELSE Get(existing, id)>> :
        id \in (Keys(existing) \cup Keys(dests)) \ ExternalIds(secs)}

\* A link list as a set of <<page, rectangle, target>>.
LinkSet(links) == {<<links[i].page, links[i].rect, links[i].dest_id>> : i \in 1..Len(links)}

Removed == event.op = "remove_destination" /\ event.out = "removed"
Saved == event.op = "save_and_quit" /\ event.out = "saved"
SaveEnded == event.op = "save_and_quit" /\ event.out \in {"saved", "no changes"}

\* C1: after remove_destination was confirmed for the selected destination d,
\* no link region has dest_id = d and d has a position in neither map.
C1_RemoveCascades ==
    Removed =>
        /\ \A i \in 1..Len(link_annotations) : link_annotations[i].dest_id # event.id
        /\ ~Has(destinations, event.id)
        /\ ~Has(existing_destinations, event.id)

\* A destination discovered in the document, with link regions pointing to
\* it, was removed.
C1_Witness ==
    /\ Removed
    /\ event.n > 0
    /\ Has(ExistingOf(opened), event.id)

\* C2: when save_and_quit has ended the session, loading the file again
\* gives the final position map of the session and its set of link regions.
C2_RoundTrip ==
    SaveEnded =>
        /\ FinalMap(Reloaded.existing_destinations, Reloaded.destinations, Reloaded.sections)
              = FinalMap(existing_destinations, destinations, sections)
        /\ LinkSet(Reloaded.link_annotations) = LinkSet(link_annotations)

\* The links of a list on one page, in the order of the list.
OnPage(links, page_num) == SelectSeq(links, LAMBDA l : l.page = page_num)

\* A link annotation of the document as <<rectangle, is URI, target>>.
Annotation(raw) ==
    <<raw.from, raw.kind = "LINK_URI", IF raw.kind = "LINK_URI" THEN raw.uri ELSE raw.name>>

\* A link region of the session as <<rectangle, is URL, target>>.
Region(l) == <<l.rect, l.type = "url", l.dest_id>>

\* C3: after a completed save the link annotations of the document are the
\* session's link list: when the session deleted a loaded link or added one,
\* every page carries exactly the session's links of that page, in session
\* order; when it did neither, the annotations are the ones opened, from
\* which the session's list was loaded.
C3_LinkDiff ==
    Saved =>
        IF link_annotations = LoadedLinks
        THEN pdf.links = opened.links
        ELSE \A p \in 0..(NumPages - 1) :
                LET written == OnPage(pdf.links, p)
                    session == OnPage(link_annotations, p)
                IN  /\ Len(written) = Len(session)
                    /\ \A i \in 1..Len(session) :
                          /\ written[i].kind \in {"LINK_URI", "LINK_NAMED"}
                          /\ Annotation(written[i]) = Region(session[i])

\* A save of a session that deleted a loaded link, kept another and drew a
\* new one.
C3_Witness ==
    /\ Saved
    /\ Len(KeptExistingLinks(link_annotations)) < Len(LoadedLinks)
    /\ Len(KeptExistingLinks(link_annotations)) > 0
    /\ Len(NewLinks(link_annotations)) > 0

\* The position written to /Dests for a session position (page, x, y): the
\* y axis is flipped on the height of the page.
Native(pos) ==
    [page |-> pos[1], fit |-> "/XYZ", left |-> pos[2],
     top |-> RSub(I(IF pos[1] < NumPages THEN pdf.heights[pos[1] + 1] ELSE 800), pos[3])]

\* C4: the destination map written by a completed save holds exactly the
\* ids of existing_destinations and destinations that are not the id of an
\* External entry, each once, with the session's position where there is
\* one and the discovered position otherwise.
C4_WrittenMap ==
    Saved =>
        LET ids == (Keys(existing_destinations) \cup Keys(destinations)) \ ExternalIds(sections)
        IN  /\ Keys(pdf.dests) = {<<"/">> \o id : id \in ids}
            /\ Len(pdf.dests) = Cardinality(ids)
            /\ \A id \in ids :
                  Get(pdf.dests, <<"/">> \o id) =
                      Native(IF Has(destinations, id) THEN Get(destinations, id)
                             ELSE Get(existing_destinations, id))

\* A save where the session moved a discovered destination, a discovered
\* destination is not in the list, and an External entry has the id of a
\* position.
C4_Witness ==
    /\ Saved
    /\ \E id \in Keys(destinations) \ ExternalIds(sections) :
          /\ Has(existing_destinations, id)
          /\ Get(existing_destinations, id) # Get(destinations, id)
    /\ Keys(existing_destinations) \ SectionIds(sections) # {}
    /\ ExternalIds(sections) \cap (Keys(existing_destinations) \cup Keys(destinations)) # {}

\* C5: every link region whose type is not 'page' has the id of an entry of
\* the destination list as its dest_id, from the end of loading on.
C5_LinksResolve ==
    \A i \in 1..Len(link_annotations) :
        link_annotations[i].type # "page" =>
            link_annotations[i].dest_id \in SectionIds(sections)

\* C6: every key of the session position map is the id of an entry of the
\* destination list.
C6_PositionsListed ==
    Keys(destinations) \subseteq SectionIds(sections)

\* A destination that had a position at load was removed, another still has
\* its position, and a click has since set a position.
C6_Witness ==
    /\ \E id \in Keys(load_existing_destinations(opened, <<>>, pypdf).destinations) :
          ~Has(destinations, id) /\ id \notin SectionIds(sections)
    /\ event.op = "on_mouse_up" /\ event.out = "position"
    /\ Has(destinations, event.id)

\* C7: no two entries of the destination list have the same id.
C7_UniqueIds ==
    \A i, j \in 1..Len(sections) :
        i # j => SectionId(sections[i]) # SectionId(sections[j])

\* C8: add_custom_destination with empty or whitespace-only text changes
\* neither the destination list, the selection, the position maps nor the
\* link list.
C8_BlankIsNoOp ==
    [][\A text \in Texts :
          (StripSpace(text) = <<>> /\ add_custom_destination(text)) =>
              UNCHANGED <<sections, current_section_idx, destinations,
                          existing_destinations, link_annotations>>]_vars

\* The text starts with http:// or https:// in any letter case.
HasScheme(t) ==
    \/ Len(t) >= 7 /\ Lower(SubSeq(t, 1, 7)) = <<"h","t","t","p",":","/","/">>
    \/ Len(t) >= 8 /\ Lower(SubSeq(t, 1, 8)) = <<"h","t","t","p","s",":","/","/">>

\* The entry add_custom_destination is to append for a text.
Entered(text) ==
    LET t == StripSpace(text)
    IN  IF HasScheme(t)
        THEN [hasid |-> TRUE, id |-> t, title |-> t, custom |-> TRUE, type |-> "url"]
        ELSE [hasid |-> TRUE, id |-> title_to_id(text), title |-> t, custom |-> TRUE,
              type |-> "local"]

\* C9: add_custom_destination with non-blank text appends one entry to the
\* destination list and selects it: External with the trimmed text as id
\* when the text starts with http:// or https:// in any letter case, Local
\* with id title_to_id(text) otherwise; entries, positions and links are as
\* before.
C9_AddAppends ==
    [][\A text \in Texts :
          (StripSpace(text) # <<>> /\ add_custom_destination(text)) =>
              /\ sections' = Append(sections, Entered(text))
              /\ current_section_idx' = Len(sections)
              /\ UNCHANGED <<destinations, existing_destinations, link_annotations>>]_vars

\* An External entry was added from a text with an upper-case scheme and is
\* selected.
C9_Witness ==
    /\ event.op = "add_custom_destination" /\ event.out = "added"
    /\ event.id = UrlY
    /\ HasCurrent /\ Current.type = "url" /\ Current.id = UrlY
    /\ current_section_idx = Len(sections) - 1

\* C10: a button-up less than 10 units from the button-down, with an
\* External entry selected, changes neither the position maps, the link
\* list nor the destination list.
C10_NoPositionForExternal ==
    [][\A pt \in UpPoints :
          (/\ on_mouse_up(pt)
           /\ drag_start # None /\ HasCurrent /\ Current.type = "url"
           /\ IsClick(drag_start, pt)) =>
              UNCHANGED <<destinations, existing_destinations, link_annotations,
                          sections>>]_vars

\* A click ended with an External entry selected.
C10_Witness ==
    /\ event.op = "on_mouse_up" /\ event.out = "url click"
    /\ HasCurrent /\ Current.type = "url"

\* The square of the distance between two canvas points.
Distance2(from, to) ==
    RAdd(RMul(RSub(to[1], from[1]), RSub(to[1], from[1])),
         RMul(RSub(to[2], from[2]), RSub(to[2], from[2])))

\* C11: at button-up with a Local entry selected, a distance below 10 from
\* the button-down point stores (current page, button-down point / zoom) for
\* the selection and leaves the link list alone; a distance of 10 or more
\* appends one link created in the session, on the current page, to the
\* selection, and leaves the position maps alone.  A drag-motion event
\* changes nothing the outcome depends on.
C11_ClickOrDrag ==
    [][/\ \A pt \in UpPoints :
            (/\ on_mouse_up(pt)
             /\ drag_start # None /\ HasCurrent /\ Current.type # "url") =>
                IF RLt(Distance2(drag_start, pt), I(100))
                THEN /\ Keys(destinations') = Keys(destinations) \cup {SectionId(Current)}
                     /\ Get(destinations', SectionId(Current)) =
                            <<current_page, RDiv(drag_start[1], zoom), RDiv(drag_start[2], zoom)>>
                     /\ \A id \in Keys(destinations) \ {SectionId(Current)} :
                            Get(destinations', id) = Get(destinations, id)
                     /\ UNCHANGED <<existing_destinations, link_annotations>>
                ELSE /\ Len(link_annotations') = Len(link_annotations) + 1
                     /\ SubSeq(link_annotations', 1, Len(link_annotations)) = link_annotations
                     /\ ~link_annotations'[Len(link_annotations')].existing
                     /\ link_annotations'[Len(link_annotations')].page = current_page
                     /\ link_annotations'[Len(link_annotations')].dest_id = SectionId(Current)
                     /\ UNCHANGED <<destinations, existing_destinations>>
       /\ \A pt \in UpPoints :
            on_mouse_drag(pt) =>
                UNCHANGED <<sections, current_section_idx, destinations, existing_destinations,
                            link_annotations, current_page, zoom, drag_start>>]_vars

\* A button-up exactly 10 units from the button-down made a link with a
\* Local entry selected.
C11_Witness ==
    /\ event.op = "on_mouse_up" /\ event.out = "link"
    /\ Len(NewLinks(link_annotations)) > 0
    /\ LET l == link_annotations[Len(link_annotations)]
       IN  /\ ~l.existing /\ l.type = "local"
           /\ RSub(l.rect[3], l.rect[1]) = RDiv(I(6), zoom)
           /\ RSub(l.rect[4], l.rect[2]) = RDiv(I(8), zoom)

\* C12: a button-down either deletes a link and leaves the gesture idle, or
\* deletes nothing and sets drag_start to its point; every button-up leaves
\* drag_start None; a button-up or drag-motion event with drag_start None
\* changes nothing; between gestures drag_start is None.
C12_GestureStates ==
    [][/\ on_mouse_down(DownPoint) =>
            /\ drag_start = None
            /\ \/ link_annotations' = link_annotations /\ drag_start' = DownPoint
               \/ link_annotations' # link_annotations /\ drag_start' = None
       /\ \A pt \in UpPoints :
            /\ on_mouse_up(pt) => drag_start' = None
            /\ (drag_start = None /\ (on_mouse_up(pt) \/ on_mouse_drag(pt))) =>
                  UNCHANGED <<store, view, gesture, doc_open, running, pdf>>]_vars

\* A button-up came in the idle state, after a button-down that deleted a
\* link.
C12_Witness ==
    /\ event.op = "on_mouse_up" /\ event.out = "idle"
    /\ drag_start = None
    /\ Len(KeptExistingLinks(link_annotations)) < original_link_count

\* The point is inside the link's rectangle as drawn at zoom z.
Inside(l, z, pt) ==
    /\ RLe(RMul(l.rect[1], z), pt[1]) /\ RLe(pt[1], RMul(l.rect[3], z))
    /\ RLe(RMul(l.rect[2], z), pt[2]) /\ RLe(pt[2], RMul(l.rect[4], z))

\* i is the position in the list of the first link on the current page
\* that contains the point.
IsFirstAt(i, pt) ==
    /\ i \in 1..Len(link_annotations)
    /\ link_annotations[i].page = current_page
    /\ Inside(link_annotations[i], zoom, pt)
    /\ \A j \in 1..(i - 1) :
          ~(link_annotations[j].page = current_page /\ Inside(link_annotations[j], zoom, pt))

\* C13: among the links of the current page that contain the pointer, the
\* hover picks the first in the list, and a deleting button-down removes
\* that one and no other, keeping the order of the rest.
C13_FirstMatchWins ==
    [][/\ \A pt \in MotionPoints :
            (on_mouse_motion(pt) /\ drag_start = None) =>
                \/ hovered_link_index' # NoIndex /\ IsFirstAt(hovered_link_index' + 1, pt)
                \/ hovered_link_index' = NoIndex /\ ~\E i \in 1..Len(link_annotations) : IsFirstAt(i, pt)
       /\ (on_mouse_down(DownPoint) /\ link_annotations' # link_annotations) =>
            \E i \in 1..Len(link_annotations) :
                /\ IsFirstAt(i, DownPoint)
                /\ link_annotations' = SubSeq(link_annotations, 1, i - 1)
                                         \o SubSeq(link_annotations, i + 1, Len(link_annotations))]_vars

\* A link was deleted while a later link of the same page, and a link of
\* another page, contain the pointer too.
C13_Witness ==
    /\ event.op = "delete_link_at_position" /\ event.out = "deleted"
    /\ \E i \in 1..Len(link_annotations) :
          /\ i > event.n
          /\ link_annotations[i].page = current_page
          /\ Inside(link_annotations[i], zoom, DownPoint)
    /\ \E i \in 1..Len(link_annotations) :
          /\ link_annotations[i].page # current_page
          /\ Inside(link_annotations[i], zoom, DownPoint)

Loaded == event.op = "__init__"

\* The position (page, x, y) of a name tree entry.
TreePosition(v) == <<v.page, v.left, RSub(I(opened.heights[v.page + 1]), v.top)>>

\* C14: at the end of loading, an id that is both in the name tree and in
\* the catalog's /Dests has the position of the name tree as its discovered
\* position.
C14_NameTreeWins ==
    (Loaded /\ pypdf) =>
        \A i \in 1..Len(opened.named) :
            Has(opened.dests, <<"/">> \o opened.named[i].k) =>
                /\ Has(existing_destinations, opened.named[i].k)
                /\ Get(existing_destinations, opened.named[i].k)
                      = TreePosition(opened.named[i].v)

\* The canonical id of a desired entry.
CanonicalId(s) == IF s.hasid THEN s.id ELSE title_to_id(s.title)

\* C15: at the end of loading the desired entries are the front of the
\* destination list, in their order, and each has the discovered position
\* of its canonical id as its session position, or none when there is no
\* such discovered position.
C15_DesiredMatched ==
    Loaded =>
        /\ Len(sections) >= Len(desired_sections)
        /\ SubSeq(sections, 1, Len(desired_sections)) = desired_sections
        /\ \A i \in 1..Len(desired_sections) :
              LET id == CanonicalId(desired_sections[i])
              IN  IF Has(existing_destinations, id)
                  THEN /\ Has(destinations, id)
                       /\ Get(destinations, id) = Get(existing_destinations, id)
                  ELSE ~Has(destinations, id)

\* A load where an entry with an explicit id and an entry with a title only
\* adopted discovered positions.
C15_Witness ==
    /\ Loaded
    /\ Len(desired_sections) = 2
    /\ Has(destinations, CanonicalId(desired_sections[1]))
    /\ Has(destinations, CanonicalId(desired_sections[2]))
    /\ desired_sections[1].hasid /\ ~desired_sections[2].hasid

\* A colon and one of the keywords, in any letter case.
LooksLikeBookmark(id) ==
    /\ Contains(id, <<":">>)
    /\ \/ Contains(Lower(id), <<"b","l","a","d","w","i","j","z","e","r">>)
       \/ Contains(Lower(id), <<"b","o","o","k","m","a","r","k">>)
       \/ Contains(Lower(id), <<"t","o","c">>)

\* C16: at the end of loading, a discovered destination whose id is the
\* canonical id of no desired entry is in the destination list as a Local
\* entry, once, after the desired entries, with its discovered position as
\* session position; unless its id looks like a bookmark artifact: then no
\* entry has its id and it has no session position.
C16_UnmatchedAppended ==
    Loaded =>
        \A id \in Keys(existing_destinations) \
                     {CanonicalId(desired_sections[i]) : i \in 1..Len(desired_sections)} :
            IF LooksLikeBookmark(id)
            THEN /\ id \notin SectionIds(sections)
                 /\ ~Has(destinations, id)
            ELSE /\ \E i \in (Len(desired_sections) + 1)..Len(sections) :
                       /\ sections[i].hasid /\ sections[i].id = id
                       /\ sections[i].type = "local"
                       /\ \A j \in 1..Len(sections) :
                             (sections[j].hasid /\ sections[j].id = id) => j = i
                 /\ Has(destinations, id)
                 /\ Get(destinations, id) = Get(existing_destinations, id)

\* A load with a discovered destination appended to the list and a bookmark
\* artifact left out.
C16_Witness ==
    /\ Loaded
    /\ IdToc \in Keys(existing_destinations) \ SectionIds(sections)
    /\ \E i \in 1..Len(sections) :
          /\ sections[i].custom /\ sections[i].type = "local"
          /\ Has(existing_destinations, sections[i].id)

\* The ids of the discovered destinations on the page within 5 units of
\* the position in both directions, as positions in discovery order.
Near(page_num, to) ==
    {k \in 1..Len(existing_destinations) :
        LET v == existing_destinations[k].v
        IN  /\ v[1] = page_num
            /\ RLt(RAbs(RSub(v[2], to[1])), I(5))
            /\ RLt(RAbs(RSub(v[3], to[2])), I(5))}

\* The pseudo-target of a jump to the page.
PseudoTarget(page_num) == <<"p", "a", "g", "e", "-">> \o IntToText(page_num + 1)

\* C17: at the end of loading every link of the document is in the link
\* list, and a direct page jump without a name has as target the first
\* discovered destination within the tolerance of its raw position, if it
\* has a raw position and there is such a destination, and the pseudo-target
\* of its page otherwise.
C17_JumpResolves ==
    Loaded =>
        LET raw == ByPage(opened.links, 0, Len(opened.heights))
        IN  /\ Len(link_annotations) = Len(raw)
            /\ \A i \in 1..Len(raw) :
                  (raw[i].kind = "LINK_GOTO" /\ raw[i].name = <<>>) =>
                      IF raw[i].to # None /\ Near(raw[i].to_page, raw[i].to) # {}
                      THEN LET first == CHOOSE k \in Near(raw[i].to_page, raw[i].to) :
                                           \A m \in Near(raw[i].to_page, raw[i].to) : k <= m
                           IN  link_annotations[i].dest_id = existing_destinations[first].k
                      ELSE /\ link_annotations[i].dest_id = PseudoTarget(raw[i].to_page)
                           /\ link_annotations[i].type = "page"

\* C18: at the end of loading, for every URI link of the document the
\* destination list has an External entry with the URI as id, and no two
\* entries have the id of a URI link.
C18_UriEntries ==
    Loaded =>
        \A i \in 1..Len(opened.links) :
            (opened.links[i].kind = "LINK_URI" /\ opened.links[i].uri # <<>>) =>
                /\ \E j \in 1..Len(sections) :
                      /\ sections[j].type = "url"
                      /\ sections[j].hasid /\ sections[j].id = opened.links[i].uri
                /\ Cardinality({j \in 1..Len(sections) :
                                   sections[j].hasid /\ sections[j].id = opened.links[i].uri}) <= 1

\* The link list holds every link that was loaded and no other.
NoLinkChanges ==
    /\ \A i \in 1..Len(link_annotations) : link_annotations[i].existing
    /\ Len(link_annotations) = Len(LoadedLinks)

\* C19: save_and_quit with an empty final position map and no link changes
\* leaves the file as it is and takes the 'no changes' path; the session
\* ends only when the user confirms, and when the user declines, the
\* session's state and its document handle stay as they are.
C19_NothingToSave ==
    [][\A confirm \in BOOLEAN :
          (/\ save_and_quit(confirm)
           /\ FinalMap(existing_destinations, destinations, sections) = {}
           /\ NoLinkChanges) =>
              /\ pdf' = pdf
              /\ event'.out \in {"no changes", "nothing"}
              /\ ~running' => confirm
              /\ ~confirm => UNCHANGED <<store, view, gesture, doc_open, running>>]_vars

\* The user declined to exit a session of a document with destinations
\* whose final position map is empty.
C19_Witness ==
    /\ event.op = "save_and_quit" /\ event.out = "nothing"
    /\ running /\ doc_open
    /\ FinalMap(existing_destinations, destinations, sections) = {}
    /\ NoLinkChanges
    /\ Len(ExistingOf(opened)) > 0 /\ pypdf

\* C20: a save_and_quit that ends on the failed import leaves the
\* destination list, the position maps and the link list as they are and
\* the document open; as long as the session runs its document is open.
C20_RetryAfterFailedSave ==
    [][/\ \A confirm \in BOOLEAN :
            (save_and_quit(confirm) /\ event'.out = "import error") =>
                /\ UNCHANGED <<sections, destinations, existing_destinations, link_annotations>>
                /\ doc_open'
       /\ running' => doc_open']_vars

\* save_and_quit has ended on an error raised in step 2.
FailedInStep2 == event.op = "save_and_quit" /\ event.out = "step 2 raised"

\* C21: when save_and_quit fails after step 1 (destinations) has completed
\* and before step 2 (links) completes, the document at pdf_path holds the
\* /Dests of the session's final position map and its original links.
C21_DestinationsWithoutLinks ==
    FailedInStep2 =>
        /\ pdf.dests = DestsDict(AllDestinations(existing_destinations, destinations, sections),
                                 pdf.heights)
        /\ pdf.links = opened.links

\* The shape of an id: only a-z, 0-9 and '-' (so no upper-case letter and
\* no whitespace), no hyphen at either end.
IsSlug(id) ==
    /\ \A i \in 1..Len(id) : id[i] \in Range(LowerCase) \cup Range(Digits) \cup {"-"}
    /\ Lower(id) = id
    /\ \A i \in 1..Len(id) : ~IsSpace(id[i])
    /\ Len(id) > 0 => id[1] # "-" /\ id[Len(id)] # "-"

\* C22: title_to_id gives the same id for a title each time it is called,
\* and the id is lower-case, has no whitespace, only a-z, 0-9 and '-', and
\* no hyphen at either end: the id main() computed for the entry, the id
\* the callbacks compute for it, the keys of the session's positions and
\* the targets of its links are one id of that shape.
C22_IdShape ==
    /\ \A i \in 1..Len(desired_sections) :
          LET id == title_to_id(desired_sections[i].title)
          IN  /\ IsSlug(id)
              /\ SectionId(desired_sections[i]) = id
              /\ \A k \in Keys(destinations) : k = id
              /\ \A j \in 1..Len(link_annotations) : link_annotations[j].dest_id = id
              /\ event.op \in {"on_mouse_up", "remove_current_destination"} =>
                     event.id \in {id, <<>>}

\* A click stored a position for an entry whose title has an upper-case
\* letter, whitespace and a hyphen at its end.
C22_Witness ==
    /\ Len(desired_sections) = 1
    /\ desired_sections[1].title = <<"A", " ", "-">>
    /\ ~desired_sections[1].hasid
    /\ Keys(destinations) = {<<"a">>}
    /\ event.op = "on_mouse_up" /\ event.out = "position"

\* A dict as the set of its <<key, value>> pairs.
Items(d) == {<<d[i].k, d[i].v>> : i \in 1..Len(d)}

\* C23: remove_current_destination takes the position of the selected
\* destination out of both maps and leaves every other position, the
\* destination list, the selection and the link list (links to that
\* destination included) as they are; when the selected destination has a
\* position in neither map, or nothing is selected, the session's state is
\* unchanged.
C23_RemovePositionOnly ==
    [][remove_current_destination =>
          /\ UNCHANGED <<sections, current_section_idx, custom_sections, link_annotations,
                         original_link_count, view, gesture, file>>
          /\ IF HasCurrent
             THEN LET id == SectionId(Current)
                  IN  /\ Items(destinations') = {e \in Items(destinations) : e[1] # id}
                      /\ Items(existing_destinations') =
                            {e \in Items(existing_destinations) : e[1] # id}
                      /\ (~Has(destinations, id) /\ ~Has(existing_destinations, id))
                            => UNCHANGED <<destinations, existing_destinations>>
             ELSE UNCHANGED <<destinations, existing_destinations>>]_vars

\* The position of a destination discovered in the document was removed
\* while a link points to it and other destinations have positions.
C23_Witness ==
    /\ event.op = "remove_current_destination" /\ event.out = "removed"
    /\ Has(ExistingOf(opened), event.id)
    /\ ~Has(destinations, event.id) /\ ~Has(existing_destinations, event.id)
    /\ \E i \in 1..Len(link_annotations) : link_annotations[i].dest_id = event.id
    /\ HasCurrent /\ SectionId(Current) = event.id
    /\ Len(destinations) > 0 /\ Len(existing_destinations) > 0

\* The destination entries of a document in the order the load reads them:
\* reader.named_destinations, then the catalog's /Dests.
Discovered(doc) == NamedDestinations(doc) \o doc.dests

\* The entry of the document a discovered position was read from.
RawOf(doc, id) ==
    LET all == Discovered(doc)
        first == CHOOSE i \in 1..Len(all) :
                    /\ LStrip(all[i].k, {"/"}) = id
                    /\ \A j \in 1..(i - 1) : LStrip(all[j].k, {"/"}) # id
    IN  all[first].v

\* The discovered destinations the session has left as they were loaded and
\* that no External entry is named like.
Untouched ==
    {id \in Keys(ExistingOf(opened)) \ ExternalIds(sections) :
        <<id, Get(ExistingOf(opened), id)>>
            \in FinalMap(existing_destinations, destinations, sections)}

\* C24: a discovered destination at (page p, left, top) that the session
\* did not modify is written by a completed save at (page p, left, top),
\* whatever the height of page p; and the position a click stores is drawn
\* at the canvas point of the click as long as the zoom is the same.
C24_CoordinatesRoundTrip ==
    /\ [](Saved =>
            \A id \in Untouched :
                LET raw == RawOf(opened, id)
                    written == Get(pdf.dests, <<"/">> \o id)
                IN  /\ Has(pdf.dests, <<"/">> \o id)
                    /\ written.page = raw.page
                    /\ written.left = raw.left
                    /\ written.top = raw.top)
    /\ [][\A pt \in UpPoints :
             (on_mouse_up(pt) /\ event'.out = "position") =>
                 <<event'.id, drag_start[1], drag_start[2]>>
                     \in Markers(destinations', current_page', zoom')]_vars

\* A save of a session that left a discovered destination of the second
\* page (which is lower than the first) as it was and stored a position by
\* a click at a zoom of 125%.
C24_Witness ==
    /\ Saved
    /\ \E id \in Untouched : RawOf(opened, id).page = 1
    /\ opened.heights[2] # opened.heights[1]
    /\ \E i \in 1..Len(destinations) :
          destinations[i].v = ClickPosition(current_page, Rat(5, 4), DownPoint)

\* C25: the selection index is never negative and, while the destination
\* list is not empty, it is the index of an entry of the list.
C25_SelectionValid ==
    /\ current_section_idx >= 0
    /\ Len(sections) > 0 => current_section_idx < Len(sections)

\* The entry at the end of the loaded list was removed while it was
\* selected, and entries are left.
C25_Witness ==
    /\ Removed
    /\ opened = LinkedDocument /\ desired_sections = <<>> /\ pypdf
    /\ event.id = UriX
    /\ custom_sections = <<>>
    /\ Len(sections) = 2
    /\ current_section_idx = 1

\* C26: the page shown is a page of the document, and so is the page of
\* every position of the session's map and of every link region created in
\* the session.
C26_PagesInRange ==
    /\ current_page \in 0..(NumPages - 1)
    /\ \A i \in 1..Len(destinations) : destinations[i].v[1] \in 0..(NumPages - 1)
    /\ \A i \in 1..Len(link_annotations) :
          ~link_annotations[i].existing => link_annotations[i].page \in 0..(NumPages - 1)

\* On the last page of the document a click has stored a position and a
\* drag has created a link region.
C26_Witness ==
    /\ event.op = "on_mouse_up" /\ event.out = "link"
    /\ current_page = NumPages - 1
    /\ \E i \in 1..Len(link_annotations) :
          ~link_annotations[i].existing /\ link_annotations[i].page = NumPages - 1
    /\ \E i \in 1..Len(destinations) :
          /\ destinations[i].v[1] = NumPages - 1
          /\ destinations[i].v = ClickPosition(NumPages - 1, zoom, DownPoint)

\* A list is another with one more entry at its end.
Appended(old, new) == Len(new) = Len(old) + 1 /\ Upto(new, Len(old)) = old

\* A list is another without the entry at a 0-based index.
Without(old, new, idx) ==
    /\ idx < Len(old)
    /\ Len(new) = Len(old) - 1
    /\ \A i \in 1..Len(new) : new[i] = IF i <= idx THEN old[i] ELSE old[i + 1]

\* C27: after loading, a step changes the destination list only by
\* add_custom_destination putting one entry at its end or by
\* remove_destination taking the selected entry out of it, the other
\* entries staying in their order; every other callback leaves it as it is.
C27_OrderStable ==
    [][\/ sections' = sections
       \/ /\ \E text \in Texts : add_custom_destination(text)
          /\ Appended(sections, sections')
       \/ /\ remove_destination(TRUE)
          /\ Without(sections, sections', current_section_idx)]_vars

\* The entry in the middle of a list of three was removed.
C27_Witness ==
    /\ Removed
    /\ event.id = IdB
    /\ Len(sections) = 2
    /\ SectionId(sections[1]) = IdA
    /\ SectionId(sections[2]) = UriX
    /\ current_section_idx = 1

====
